---------------------------- MODULE Spec2Model ----------------------------
(***************************************************************************)
(* Model of the SDC command layer of the sdc-plugin (sdc-plugin/sdc.cc):   *)
(* the Tcl command wrapper, create_clock, get_clocks and propagate_clocks. *)
(*                                                                         *)
(* Strings are sequences of one-character strings, so that std::stof, the  *)
(* stringstream extraction and RTLIL::unescape_id are computed character   *)
(* by character.  A float x is held as the integer 2*x: every literal of   *)
(* the model is an integer and the only arithmetic of the layer is one     *)
(* halving (period / 2), so the representation is exact.                   *)
(*                                                                         *)
(* Clock::Add, Clocks::GetClocks, the two Propagation passes and           *)
(* Clocks::UpdateAbc9DelayTarget live in clocks.cc / propagation.cc, which *)
(* are not part of the sources at hand; they are modelled from the         *)
(* specification (sections 4.1 and 4.2) and marked so in MODEL_MAP.json.   *)
(***************************************************************************)
EXTENDS Integers, Sequences, FiniteSets, TLC

VARIABLES
    top_module,           \* design->top_module(): a module name or NoTop
    selection,            \* design->selection_stack.back()
    registry,             \* the clock registry (sequence of Clock records)
    logical_to_wire_map,  \* GetClocksCmd::logical_to_wire_map
    pc,                   \* position inside PropagateClocksCmd::execute
    passes,               \* the array built at sdc.cc:447
    pass_idx,             \* index of the next pass of the for loop (1-based)
    cleared,              \* engine: RemoveAllOfKind(PROPAGATED) done this run
    delay_updates,        \* calls of UpdateAbc9DelayTarget in the current run
    events,               \* what the current / last propagate run did, in order
    last_cmd,             \* the command the Tcl wrapper ran last, with its args
    tcl_code,             \* what the wrapper returned: TCL_OK / TCL_ERROR
    tcl_result,           \* Tcl_SetObjResult: the list handed to the interpreter
    log,                  \* log(), log_warning(), log_cmd_error() of last_cmd
    add_calls,            \* the Clock::Add calls last_cmd made (arguments)
    prev_registry,        \* the registry when last_cmd started
    prev_selection,       \* the selection when last_cmd started
    select_calls,         \* the wires last_cmd passed to design->select()
    run_clean,            \* a run has ended and the registry is as it left it
    run_was_clean,        \* run_clean when the current / last run began
    stale,                \* PROPAGATED clocks present when that run began
    n_cmds                \* commands issued so far (bounded by MaxCmds)

vars == <<top_module, selection, registry, logical_to_wire_map, pc, passes,
          pass_idx, cleared, delay_updates, events, last_cmd, tcl_code,
          tcl_result, log, add_calls, prev_registry, prev_selection,
          select_calls, run_clean, run_was_clean, stale, n_cmds>>

-----------------------------------------------------------------------------
(* Bounds of the model *)

\* commands issued in one session
MaxCmds == 4
\* option groups in front of the target of one create_clock command
MaxOpts == 2

-----------------------------------------------------------------------------
(* Characters and numbers *)

Digits == <<"0", "1", "2", "3", "4", "5", "6", "7", "8", "9">>

IsDigit(c) == \E i \in 1..Len(Digits) : Digits[i] = c

DigitVal(c) == (CHOOSE i \in 1..Len(Digits) : Digits[i] = c) - 1

IsSpace(c) == c = " "

\* the float n, in the model's half units
Float(n) == 2 * n

RECURSIVE SkipWs(_)
SkipWs(s) == IF s # <<>> /\ IsSpace(Head(s)) THEN SkipWs(Tail(s)) ELSE s

RECURSIVE ScanDigits(_, _, _)
ScanDigits(s, acc, n) ==
    IF s # <<>> /\ IsDigit(Head(s))
    THEN ScanDigits(Tail(s), 10 * acc + DigitVal(Head(s)), n + 1)
    ELSE [val |-> acc, n |-> n, rest |-> s]

\* strtof / num_get on the front of s: leading white space, an optional sign,
\* then digits; what follows the digits is left unread.
ParseNumber(s) ==
    LET t    == SkipWs(s)
        sign == t # <<>> /\ Head(t) \in {"-", "+"}
        neg  == t # <<>> /\ Head(t) = "-"
        d    == ScanDigits(IF sign THEN Tail(t) ELSE t, 0, 0)
    IN  IF d.n = 0
        THEN [ok |-> FALSE, val |-> 0, rest |-> t]
        ELSE [ok |-> TRUE,
              val |-> IF neg THEN 0 - Float(d.val) ELSE Float(d.val),
              rest |-> d.rest]

\* std::stof(str): throws std::invalid_argument when no number can be read
stof(str) ==
    LET p == ParseNumber(str)
    IN  [thrown |-> ~p.ok, val |-> p.val]

\* ss >> value on a stream [buf, good]: a stream that is not good() leaves the
\* value alone; a failed conversion stores 0 and sets failbit; reading up to
\* the end of the buffer sets eofbit, so the stream is no longer good().
Extract(ss, value) ==
    IF ~ss.good
    THEN [ss |-> ss, value |-> value]
    ELSE LET p == ParseNumber(ss.buf)
         IN  IF p.ok
             THEN [ss |-> [buf |-> p.rest, good |-> p.rest # <<>>],
                   value |-> p.val]
             ELSE [ss |-> [buf |-> ss.buf, good |-> FALSE], value |-> 0]

-----------------------------------------------------------------------------
(* The design: the host tool's netlist, read-only for this layer *)

NoTop == "<none>"

\* RTLIL::IdString of a user-named wire: the escaped identifier \<c>
W(c) == <<"\\", c>>

\* design->modules(), each with module->wires() in iteration order
DesignModules ==
    << [name |-> "top", wires |-> <<W("a"), W("b"), W("c")>>] >>

ModuleNames == {DesignModules[i].name : i \in 1..Len(DesignModules)}

\* a wire object is the pair <<module name, wire name>>
ModuleWires(m) == {<<m.name, m.wires[j]>> : j \in 1..Len(m.wires)}

AllWires == UNION {ModuleWires(DesignModules[i]) : i \in 1..Len(DesignModules)}

WireName(w) == w[2]

\* every wire of the design, in design->modules() / module->wires() order
RECURSIVE WireSeq(_)
WireSeq(i) ==
    IF i > Len(DesignModules) THEN <<>>
    ELSE [j \in 1..Len(DesignModules[i].wires) |->
             <<DesignModules[i].name, DesignModules[i].wires[j]>>] \o WireSeq(i + 1)

\* the cells that matter to clock propagation, in the module's cell order: a
\* divide-by-two a -> b, and buffers b -> c and c -> b (a combinational loop)
DesignCells ==
    << [type |-> "divider", in |-> <<"top", W("a")>>, out |-> <<"top", W("b")>>,
        divisor |-> 2],
       [type |-> "buffer",  in |-> <<"top", W("b")>>, out |-> <<"top", W("c")>>,
        divisor |-> 1],
       [type |-> "buffer",  in |-> <<"top", W("c")>>, out |-> <<"top", W("b")>>,
        divisor |-> 1] >>

\* RTLIL::unescape_id
unescape_id(str) ==
    IF Len(str) < 2 THEN str
    ELSE IF str[1] # "\\" THEN str
    ELSE IF str[2] \in {"$", "\\"} THEN str
    ELSE IF IsDigit(str[2]) THEN str
    ELSE Tail(str)

\* design->selected(module)
selected_module(sel, m) == m \in sel.modules

\* design->selected(module, wire)
selected_member(sel, m, w) == <<m, w>> \in sel.wires

\* design->select(module, wire)
select(sel, m, w) ==
    [modules |-> sel.modules \cup {m}, wires |-> sel.wires \cup {<<m, w>>}]

\* the selections a session can start with: the whole design, some wires of
\* the module, or only cells of the module (module selected, no wire selected)
FullSelection == [modules |-> ModuleNames, wires |-> AllWires]

CellsOnlySelection == [modules |-> ModuleNames, wires |-> {}]

InitialSelections ==
    {FullSelection, CellsOnlySelection,
     [modules |-> {"top"}, wires |-> {<<"top", W("b")>>}]}

-----------------------------------------------------------------------------
(* create_clock *)

OptAdd      == <<"-", "a", "d", "d">>
OptName     == <<"-", "n", "a", "m", "e">>
OptPeriod   == <<"-", "p", "e", "r", "i", "o", "d">>
OptWaveform == <<"-", "w", "a", "v", "e", "f", "o", "r", "m">>
CmdCreateClock == <<"c", "r", "e", "a", "t", "e", "_", "c", "l", "o", "c", "k">>

\* args[i] of the C++ vector (0-based)
At(args, i) == args[i + 1]

\* the state of the option loop, sdc.cc:216-221
CreateClockLocals ==
    [argidx |-> 1, name |-> <<>>, is_waveform_specified |-> FALSE,
     rising_edge |-> 0, falling_edge |-> 0, period |-> 0,
     done |-> FALSE, thrown |-> FALSE]

\* std::copy_if(edges.begin(), edges.end(), edges.begin(), pred) with the
\* predicate of sdc.cc:240, c != '{' or c != '}', which every character
\* satisfies: each character is copied onto itself and the length is kept.
BracePredicate(c) == c # "{" \/ c # "}"

RECURSIVE CopyIfInPlace(_, _, _)
CopyIfInPlace(edges, from, to) ==
    IF from > Len(edges) THEN edges
    ELSE IF BracePredicate(edges[from])
         THEN CopyIfInPlace([edges EXCEPT ![to] = edges[from]], from + 1, to + 1)
         ELSE CopyIfInPlace(edges, from + 1, to)

\* sdc.cc:239-243
ReadWaveform(text, st) ==
    LET edges == CopyIfInPlace(text, 1, 1)
        ss0   == [buf |-> edges, good |-> TRUE]
        e1    == Extract(ss0, st.rising_edge)
        e2    == Extract(e1.ss, st.falling_edge)
    IN  [st EXCEPT !.rising_edge = e1.value, !.falling_edge = e2.value,
                   !.is_waveform_specified = TRUE]

\* one iteration of the for loop of sdc.cc:225-247
OptionStep(args, st) ==
    LET arg  == At(args, st.argidx)
        more == st.argidx + 1 < Len(args)
        next == At(args, st.argidx + 1)
    IN  IF arg = OptAdd /\ more
        THEN [st EXCEPT !.argidx = st.argidx + 1]
        ELSE IF arg = OptName /\ more
        THEN [st EXCEPT !.name = next, !.argidx = st.argidx + 2]
        ELSE IF arg = OptPeriod /\ more
        THEN IF stof(next).thrown
             THEN [st EXCEPT !.thrown = TRUE]
             ELSE [st EXCEPT !.period = stof(next).val,
                             !.argidx = st.argidx + 2]
        ELSE IF arg = OptWaveform /\ more
        THEN [ReadWaveform(next, st) EXCEPT !.argidx = st.argidx + 2]
        ELSE [st EXCEPT !.done = TRUE]

RECURSIVE OptionLoop(_, _)
OptionLoop(args, st) ==
    IF st.argidx >= Len(args) \/ st.done \/ st.thrown THEN st
    ELSE OptionLoop(args, OptionStep(args, st))


\* CreateClockCmd::AddWirePrefix, sdc.cc:295-299
AddWirePrefix(args, argidx) ==
    [i \in 1..Len(args) |->
        IF i > argidx THEN <<"w", ":">> \o args[i] ELSE args[i]]

\* the host's match of a wire name against a selection pattern: the name as
\* it is, or the name without its escape character
match_ids(id, pattern) ==
    \/ id = pattern
    \/ id # <<>> /\ id[1] = "\\" /\ Tail(id) = pattern

\* Pass::extra_args(args, argidx, design), called at sdc.cc:254: when targets
\* are left it evaluates each "w:<pattern>" against every module and makes the
\* union the design's current selection; the command wrapper of sdc.cc:474
\* calls execute() directly, so nothing restores the selection afterwards.
extra_args(args, argidx, sel) ==
    IF argidx >= Len(args) THEN sel
    ELSE LET pats == {SubSeq(args[i], 3, Len(args[i])) : i \in (argidx + 1)..Len(args)}
             hit  == {w \in AllWires : \E p \in pats : match_ids(WireName(w), p)}
         IN  [modules |-> {w[1] : w \in hit}, wires |-> hit]

\* the wires of module m that are in keep, in module->wires() order
RECURSIVE FilterWires(_, _, _, _)
FilterWires(m, j, keep, acc) ==
    IF j > Len(m.wires) THEN acc
    ELSE FilterWires(m, j + 1, keep,
             IF <<m.name, m.wires[j]>> \in keep
             THEN Append(acc, <<m.name, m.wires[j]>>) ELSE acc)

\* the loops of sdc.cc:257-269 and sdc.cc:271-280: over the selected modules,
\* the wires that are in keep
RECURSIVE CollectWires(_, _, _, _)
CollectWires(sel, i, keep, acc) ==
    IF i > Len(DesignModules) THEN acc
    ELSE CollectWires(sel, i + 1, keep,
             IF selected_module(sel, DesignModules[i].name)
             THEN FilterWires(DesignModules[i], 1, keep, acc) ELSE acc)

\* sdc.cc:256-269
SelectedWires(sel) ==
    CollectWires(sel, 1, {w \in AllWires : selected_member(sel, w[1], w[2])}, <<>>)

\* sdc.cc:270-281: the wires named like the clock, each of them selected
WiresNamed(sel, name) ==
    CollectWires(sel, 1, {w \in AllWires : WireName(w) = name}, <<>>)

RECURSIVE SelectAll(_, _, _)
SelectAll(sel, wires, k) ==
    IF k > Len(wires) THEN sel
    ELSE SelectAll(select(sel, wires[k][1], wires[k][2]), wires, k + 1)

Range(f) == {f[i] : i \in DOMAIN f}

-----------------------------------------------------------------------------
(* The clock registry (clocks.cc; specification 4.1) *)

IndexOfName(reg, name) ==
    IF \E i \in 1..Len(reg) : reg[i].name = name
    THEN CHOOSE i \in 1..Len(reg) : reg[i].name = name
    ELSE 0

\* Clock::Add(name, wires, period, rising_edge, falling_edge, kind): a new name
\* is appended; a name already bound to the same nodes and kind is updated in
\* place; a name bound to other nodes or another kind is a conflict.
ClockAdd(reg, name, wires, period, rising_edge, falling_edge, kind) ==
    LET c == [name |-> name, period |-> period, rising_edge |-> rising_edge,
              falling_edge |-> falling_edge, source_nodes |-> Range(wires),
              kind |-> kind]
        i == IndexOfName(reg, name)
    IN  IF period <= 0
        THEN [error |-> "InvalidPeriod", registry |-> reg]
        ELSE IF i = 0
        THEN [error |-> "none", registry |-> Append(reg, c)]
        ELSE IF reg[i].source_nodes # c.source_nodes \/ reg[i].kind # kind
        THEN [error |-> "DuplicateNameConflict", registry |-> reg]
        ELSE [error |-> "none", registry |-> [reg EXCEPT ![i] = c]]

\* a removal that removes nothing
M_RemoveNothing(reg, kind) == reg

\* a removal that keeps the given kind and drops the others
M_RemoveOtherKinds(reg, kind) ==
    LET Keep(c) == c.kind = kind
    IN  SelectSeq(reg, Keep)

\* RemoveAllOfKind(kind)
RemoveAllOfKind(reg, kind) ==
    LET Keep(c) == c.kind # kind
    IN  SelectSeq(reg, Keep)

OfKind(reg, kind) ==
    LET Is(c) == c.kind = kind
    IN  SelectSeq(reg, Is)

-----------------------------------------------------------------------------
(* CreateClockCmd::execute, sdc.cc:214-293 *)

\* one line of the log: log(), log_warning() or log_cmd_error()
LogEntry(level, text) == [level |-> level, text |-> text]

\* what a command leaves behind: the exception it ended with ("none" when it
\* returned), the selection, the registry, the log and its Clock::Add calls
Outcome(thrown, sel, reg, lg, calls) ==
    [thrown |-> thrown, selection |-> sel, registry |-> reg, log |-> lg,
     add_calls |-> calls, select_calls |-> <<>>, result |-> <<>>,
     result_set |-> FALSE]

\* sdc.cc:222-224
TooFewArguments(args) == Len(args) < 4

\* a period check that lets a zero period through
M_BadPeriod(period) == period < 0

\* sdc.cc:248-250
BadPeriod(period) == period <= 0

\* a default waveform whose falling edge is the whole period
M_DefaultWaveform(st) ==
    IF ~st.is_waveform_specified
    THEN [st EXCEPT !.rising_edge = 0, !.falling_edge = st.period]
    ELSE st

\* sdc.cc:288-291
DefaultWaveform(st) ==
    IF ~st.is_waveform_specified
    THEN [st EXCEPT !.rising_edge = 0, !.falling_edge = st.period \div 2]
    ELSE st

\* sdc.cc:251-292, entered with the option loop done and the period accepted
CreateClockTail(args, st0, sel, reg) ==
    LET pargs  == AddWirePrefix(args, st0.argidx)
        sel1   == extra_args(pargs, st0.argidx, sel)
        first  == SelectedWires(sel1)
        named  == IF first = <<>> THEN WiresNamed(sel1, st0.name) ELSE <<>>
        sel2   == IF first = <<>> THEN SelectAll(sel1, named, 1) ELSE sel1
        selected_wires == first \o named
        name   == IF st0.name = <<>>
                  THEN unescape_id(WireName(selected_wires[1]))
                  ELSE st0.name
        st     == DefaultWaveform(st0)
        call   == [name |-> name, wires |-> selected_wires, period |-> st.period,
                   rising_edge |-> st.rising_edge,
                   falling_edge |-> st.falling_edge, kind |-> "EXPLICIT",
                   is_waveform_specified |-> st.is_waveform_specified]
        added  == ClockAdd(reg, name, selected_wires, st.period, st.rising_edge,
                           st.falling_edge, "EXPLICIT")
        out    == IF Len(selected_wires) = 0
                  THEN Outcome("log_cmd_error", sel2, reg,
                          <<LogEntry("error", "Target selection is empty")>>, <<>>)
                  ELSE IF added.error # "none"
                  THEN Outcome("log_cmd_error", sel2, reg,
                          <<LogEntry("error", added.error)>>, <<call>>)
                  ELSE Outcome("none", sel2, added.registry, <<>>, <<call>>)
    IN  [out EXCEPT !.select_calls = named]

CreateClockCmd_execute(args, sel, reg) ==
    IF TooFewArguments(args)
    THEN Outcome("log_cmd_error", sel, reg,
                 <<LogEntry("error", "Incorrect number of arguments")>>, <<>>)
    ELSE LET st == OptionLoop(args, CreateClockLocals)
         IN  IF st.thrown
             THEN Outcome("std::invalid_argument", sel, reg, <<>>, <<>>)
             ELSE IF BadPeriod(st.period)
             THEN Outcome("log_cmd_error", sel, reg,
                          <<LogEntry("error", "Incorrect period value")>>, <<>>)
             ELSE CreateClockTail(args, st, sel, reg)

-----------------------------------------------------------------------------
(* The propagation engine (propagation.cc; specification 4.2) *)

\* FindByNode(node)
FindByNode(reg, node) == {reg[i] : i \in {k \in 1..Len(reg) : node \in reg[k].source_nodes}}

\* the nodes of set S, in design order
InDesignOrder(S) ==
    LET In(w) == w \in S
    IN  SelectSeq(WireSeq(1), In)

\* the outputs of the cells of one type fed by node n, in cell order
Fanout(n, type) ==
    LET Fed(c) == c.type = type /\ c.in = n
        cs     == SelectSeq(DesignCells, Fed)
    IN  [k \in 1..Len(cs) |-> cs[k]]

\* a node reached through a buffer by clock c: a node that carries a clock
\* keeps it (first seen wins, with a warning when the periods differ) and is
\* not crossed; a free node gets a PROPAGATED clock named after it
ReachNode(e, c, node) ==
    LET there == FindByNode(e.registry, node)
        added == ClockAdd(e.registry, unescape_id(WireName(node)), <<node>>,
                          c.period, c.rising_edge, c.falling_edge, "PROPAGATED")
    IN  IF node \in e.visited THEN e
        ELSE IF there # {}
        THEN [e EXCEPT !.visited = @ \cup {node},
                       !.log = IF \E x \in there : x.period # c.period
                               THEN Append(@, LogEntry("warning", "PropagationConflict"))
                               ELSE @]
        ELSE IF added.error # "none"
        THEN [e EXCEPT !.visited = @ \cup {node},
                       !.log = Append(@, LogEntry("warning", added.error))]
        ELSE [e EXCEPT !.visited = @ \cup {node}, !.registry = added.registry,
                       !.queue = Append(@, node)]

RECURSIVE ReachAll(_, _, _, _)
ReachAll(e, c, cells, k) ==
    IF k > Len(cells) THEN e
    ELSE ReachAll(ReachNode(e, c, cells[k].out), c, cells, k + 1)

\* breadth-first traversal through the buffers, from the queue of clock c
RECURSIVE Traverse(_, _)
Traverse(e, c) ==
    IF e.queue = <<>> THEN e
    ELSE LET n == Head(e.queue)
         IN  Traverse(ReachAll([e EXCEPT !.queue = Tail(@)], c,
                               Fanout(n, "buffer"), 1), c)

\* transparent propagation: every clock of the registry as it is when the pass
\* starts, in insertion order, with one visited set for the pass
RECURSIVE BufferClocks(_, _, _)
BufferClocks(e, snapshot, i) ==
    IF i > Len(snapshot) THEN e
    ELSE LET c     == snapshot[i]
             start == [e EXCEPT !.queue = InDesignOrder(c.source_nodes),
                                !.visited = @ \cup c.source_nodes]
         IN  BufferClocks(Traverse(start, c), snapshot, i + 1)

BufferPropagation_Run(reg) ==
    BufferClocks([registry |-> reg, visited |-> {}, queue |-> <<>>, log |-> <<>>],
                 reg, 1)

\* a divider fed by a node of clock c: its output, when free, gets a clock of
\* period * divisor with a 50% duty cycle
DivideAt(e, c, cell) ==
    LET period == c.period * cell.divisor
        added  == ClockAdd(e.registry, unescape_id(WireName(cell.out)),
                           <<cell.out>>, period, 0, period \div 2, "PROPAGATED")
    IN  IF FindByNode(e.registry, cell.out) # {} THEN e
        ELSE IF added.error # "none"
        THEN [e EXCEPT !.log = Append(@, LogEntry("warning", added.error))]
        ELSE [e EXCEPT !.registry = added.registry]

RECURSIVE DivideAll(_, _, _, _)
DivideAll(e, c, cells, k) ==
    IF k > Len(cells) THEN e
    ELSE DivideAll(DivideAt(e, c, cells[k]), c, cells, k + 1)

RECURSIVE DividerClocks(_, _, _)
DividerClocks(e, snapshot, i) ==
    IF i > Len(snapshot) THEN e
    ELSE LET c    == snapshot[i]
             Fed(x) == x.type = "divider" /\ x.in \in c.source_nodes
         IN  DividerClocks(DivideAll(e, c, SelectSeq(DesignCells, Fed), 1),
                           snapshot, i + 1)

ClockDividerPropagation_Run(reg) ==
    DividerClocks([registry |-> reg, visited |-> {}, queue |-> <<>>, log |-> <<>>],
                  reg, 1)

\* pass->Run() of one element of the passes array
PassRun(pass, reg) ==
    IF pass = "BufferPropagation" THEN BufferPropagation_Run(reg)
    ELSE ClockDividerPropagation_Run(reg)

-----------------------------------------------------------------------------
(* GetClocksCmd, sdc.cc:304-423 *)

CmdGetClocks == <<"g", "e", "t", "_", "c", "l", "o", "c", "k", "s">>
OptIncludeGenerated ==
    <<"-", "i", "n", "c", "l", "u", "d", "e", "_", "g", "e", "n", "e", "r", "a",
      "t", "e", "d", "_", "c", "l", "o", "c", "k", "s">>
OptOf == <<"-", "o", "f">>

\* the characters of the model, in the order of their codes
CharOrder ==
    <<" ", "$", "-", "0", "1", "2", "3", "4", "5", "6", "7", "8", "9", ":",
      "\\", "_", "a", "b", "c", "d", "e", "f", "g", "i", "k", "l", "m", "n",
      "o", "p", "r", "s", "t", "u", "v", "w", "x", "z", "{", "}">>

CharCode(c) == CHOOSE i \in 1..Len(CharOrder) : CharOrder[i] = c

\* std::string operator<, the order of a std::map<std::string, ...>
RECURSIVE LexLess(_, _)
LexLess(s, t) ==
    IF t = <<>> THEN FALSE
    ELSE IF s = <<>> THEN TRUE
    ELSE IF Head(s) # Head(t) THEN CharCode(Head(s)) < CharCode(Head(t))
    ELSE LexLess(Tail(s), Tail(t))

\* RTLIL::id2cstr
id2cstr(id) == unescape_id(id)

\* the entries of a std::map, in key order
RECURSIVE MapOrder(_)
MapOrder(entries) ==
    IF entries = {} THEN <<>>
    ELSE LET least == CHOOSE e \in entries :
                          \A o \in entries : o = e \/ LexLess(e.first, o.first)
         IN  <<least>> \o MapOrder(entries \ {least})

\* Clocks::GetClocks(design): the clock wires of the design by wire name
Clocks_GetClocks(reg) ==
    LET wires == UNION {reg[i].source_nodes : i \in 1..Len(reg)}
    IN  MapOrder({[first |-> id2cstr(WireName(w)), second |-> w] : w \in wires})

\* GetClocksCmd::extract_list, sdc.cc:319-326: the words of a string
RECURSIVE extract_list(_, _, _)
extract_list(str, word, port_list) ==
    IF str = <<>>
    THEN IF word = <<>> THEN port_list ELSE Append(port_list, word)
    ELSE IF IsSpace(Head(str))
    THEN extract_list(Tail(str), <<>>,
                      IF word = <<>> THEN port_list ELSE Append(port_list, word))
    ELSE extract_list(Tail(str), Append(word, Head(str)), port_list)

\* GetClocksCmd::create_clock_with_name, sdc.cc:416-419; sdc.cc holds no call
\* of it, so no command of the layer ever extends the map
create_clock_with_name(map, logical_name, wire_name) ==
    [k \in DOMAIN map \cup {wire_name} |->
        IF k = wire_name THEN logical_name ELSE map[k]]

GetClocksLocals ==
    [argidx |-> 1, include_generated_clocks |-> FALSE, clocks_nets |-> <<>>,
     done |-> FALSE, thrown |-> FALSE]

\* one iteration of the switch loop, sdc.cc:341-355
GetClocksStep(args, st) ==
    LET arg == At(args, st.argidx)
    IN  IF arg = OptIncludeGenerated
        THEN [st EXCEPT !.include_generated_clocks = TRUE,
                        !.argidx = st.argidx + 1]
        ELSE IF arg = OptOf /\ st.argidx + 1 < Len(args)
        THEN [st EXCEPT !.clocks_nets =
                            extract_list(At(args, st.argidx + 1), <<>>, <<>>),
                        !.argidx = st.argidx + 2]
        ELSE IF Len(arg) > 0 /\ arg[1] = "-"
        THEN [st EXCEPT !.thrown = TRUE]
        ELSE [st EXCEPT !.done = TRUE]

RECURSIVE GetClocksLoop(_, _)
GetClocksLoop(args, st) ==
    IF st.argidx >= Len(args) \/ st.done \/ st.thrown THEN st
    ELSE GetClocksLoop(args, GetClocksStep(args, st))

\* sdc.cc:378-393: the logical names of the clock wires the static map knows
RECURSIVE LogicalNames(_, _, _, _)
LogicalNames(clocks, map, i, tcl_list) ==
    IF i > Len(clocks) THEN tcl_list
    ELSE LET wire_name == id2cstr(WireName(clocks[i].second))
         IN  LogicalNames(clocks, map, i + 1,
                 IF wire_name \in DOMAIN map
                 THEN Append(tcl_list, map[wire_name]) ELSE tcl_list)

\* sdc.cc:364-366
NoClocksWarning(clocks) ==
    IF Len(clocks) = 0
    THEN <<LogEntry("warning", "No clocks found in design")>> ELSE <<>>

\* sdc.cc:410-412
NoClocksAfterWarning(clocks) ==
    IF Len(clocks) = 0
    THEN <<LogEntry("warning", "No clocks found in design after processing.")>>
    ELSE <<>>

\* sdc.cc:361-412 with an empty design treated as a command error
M_GetClocksReport(clocks, map, sel, reg) ==
    LET tcl_list == LogicalNames(clocks, map, 1, <<>>)
        names    == [k \in 1..Len(tcl_list) |-> LogEntry("log", tcl_list[k])]
    IN  IF Len(clocks) = 0
        THEN Outcome("log_cmd_error", sel, reg,
                     <<LogEntry("error", "No clocks found in design")>>, <<>>)
        ELSE [Outcome("none", sel, reg, names, <<>>)
                 EXCEPT !.result = tcl_list, !.result_set = TRUE]

\* sdc.cc:361-412: the clocks of the design, the result list, the log
GetClocksReport(clocks, map, sel, reg) ==
    LET tcl_list == LogicalNames(clocks, map, 1, <<>>)
        names    == [k \in 1..Len(tcl_list) |-> LogEntry("log", tcl_list[k])]
    IN  [Outcome("none", sel, reg,
                 NoClocksWarning(clocks) \o names \o NoClocksAfterWarning(clocks),
                 <<>>)
            EXCEPT !.result = tcl_list, !.result_set = TRUE]

GetClocksCmd_execute(args, sel, reg, map) ==
    LET st == GetClocksLoop(args, GetClocksLocals)
    IN  IF st.thrown
        THEN Outcome("log_cmd_error", sel, reg,
                     <<LogEntry("error", "Unknown option")>>, <<>>)
        ELSE GetClocksReport(Clocks_GetClocks(reg), map, sel, reg)

-----------------------------------------------------------------------------
(* The argument lists the commands are tried on *)

\* option values and targets of the create_clock parameter sweep
NameToks == {W("a"), <<"k">>}

PeriodToks == {<<"1", "0">>, <<"0">>, <<"-", "4">>, <<"x">>}

WaveToks == {<<"2", " ", "7">>, <<"{", "2", " ", "7", "}">>,
             <<"1", "2", " ", "1", "5">>, <<"3">>}

TargetToks == {<<"a">>, <<"z">>}

\* one option with its value, or the flag -add
OptionGroups ==
    {<<OptAdd>>}
      \cup {<<OptName, n>> : n \in NameToks}
      \cup {<<OptPeriod, p>> : p \in PeriodToks}
      \cup {<<OptWaveform, w>> : w \in WaveToks}

RECURSIVE OptionLists(_)
OptionLists(k) ==
    IF k = 0 THEN {<<>>}
    ELSE LET shorter == OptionLists(k - 1)
         IN  shorter \cup {g \o o : g \in OptionGroups, o \in shorter}

\* nothing, a target, or an option that lacks its value
Tails == {<<>>, <<OptPeriod>>} \cup {<<t>> : t \in TargetToks}

\* the sweep: up to MaxOpts option groups in any order, then a tail
CreateClockArgLists ==
    {<<CmdCreateClock>> \o o \o t : o \in OptionLists(MaxOpts), t \in Tails}

P10 == <<OptPeriod, <<"1", "0">>>>

\* the create_clock commands of a session
SessionCreateArgLists ==
    { <<CmdCreateClock>> \o P10 \o <<<<"a">>>>,
      <<CmdCreateClock, OptAdd>> \o P10,
      <<CmdCreateClock, OptName, W("a")>> \o P10,
      <<CmdCreateClock, OptName, <<"k">>>> \o P10 \o <<<<"a">>>>,
      <<CmdCreateClock>> \o P10 \o <<OptWaveform, <<"2", " ", "7">>, <<"a">>>>,
      <<CmdCreateClock>> \o P10,
      <<CmdCreateClock, OptName, <<"k">>, <<"a">>>>,
      <<CmdCreateClock, OptPeriod, <<"0">>, <<"a">>>>,
      <<CmdCreateClock, OptPeriod, <<"x">>, <<"a">>>>,
      <<CmdCreateClock>> \o P10 \o <<<<"z">>>> }

GetClocksArgLists ==
    {<<CmdGetClocks>>, <<CmdGetClocks, OptIncludeGenerated>>,
     <<CmdGetClocks, OptOf, <<"a", " ", "b">>>>, <<CmdGetClocks, OptOf>>,
     <<CmdGetClocks, <<"k">>>>}

CmdPropagateClocks ==
    <<"p", "r", "o", "p", "a", "g", "a", "t", "e", "_", "c", "l", "o", "c", "k", "s">>

PropagateClocksArgLists == {<<CmdPropagateClocks>>, <<CmdPropagateClocks, <<"x">>>>}

-----------------------------------------------------------------------------
(* The Tcl command wrapper, sdc.cc:462-487, and the commands *)

\* sdc.cc:468-483: an exception of execute() becomes TCL_ERROR
TclCode(thrown) == IF thrown = "none" THEN "TCL_OK" ELSE "TCL_ERROR"

\* the wrapper around an execute() that runs in one go
Dispatch(name, args, o) ==
    /\ last_cmd' = [name |-> name, args |-> args]
    /\ tcl_code' = TclCode(o.thrown)
    /\ tcl_result' = IF o.result_set THEN o.result
                     ELSE IF o.thrown \notin {"none", "log_cmd_error"}
                     THEN <<o.thrown>> ELSE <<>>
    /\ selection' = o.selection
    /\ registry' = o.registry
    /\ log' = o.log
    /\ add_calls' = o.add_calls
    /\ select_calls' = o.select_calls
    /\ prev_registry' = registry
    /\ prev_selection' = selection
    /\ n_cmds' = n_cmds + 1

TclCreateClock(args) ==
    /\ pc = "idle"
    /\ LET o == CreateClockCmd_execute(args, selection, registry)
       IN  /\ Dispatch("create_clock", args, o)
           /\ run_clean' = (run_clean /\ o.registry = registry)
    /\ UNCHANGED <<top_module, logical_to_wire_map, pc, passes, pass_idx,
                   cleared, delay_updates, events, run_was_clean, stale>>

TclGetClocks(args) ==
    /\ pc = "idle"
    /\ Dispatch("get_clocks", args,
                GetClocksCmd_execute(args, selection, registry, logical_to_wire_map))
    /\ UNCHANGED <<top_module, logical_to_wire_map, pc, passes, pass_idx,
                   cleared, delay_updates, events, run_clean, run_was_clean,
                   stale>>

\* sdc.cc:440-442
ArgumentsWarning(args) ==
    IF Len(args) > 1
    THEN <<LogEntry("warning", "Command accepts no arguments.")>> ELSE <<>>

\* a top-module check that never fails
M_NoTopModule(top) == FALSE

\* sdc.cc:443
NoTopModule(top) == top = NoTop

\* the passes in the other order
M_PassesArray == <<"ClockDividerPropagation", "BufferPropagation">>

\* sdc.cc:447-448
PassesArray == <<"BufferPropagation", "ClockDividerPropagation">>

\* sdc.cc:438-450: the command fails without a top module, or builds its passes
TclPropagateClocks(args) ==
    /\ pc = "idle"
    /\ last_cmd' = [name |-> "propagate_clocks", args |-> args]
    /\ n_cmds' = n_cmds + 1
    /\ prev_registry' = registry
    /\ prev_selection' = selection
    /\ add_calls' = <<>>
    /\ select_calls' = <<>>
    /\ tcl_result' = <<>>
    /\ events' = <<>>
    /\ delay_updates' = 0
    /\ cleared' = FALSE
    /\ stale' = OfKind(registry, "PROPAGATED")
    /\ run_was_clean' = run_clean
    /\ IF NoTopModule(top_module)
       THEN /\ log' = ArgumentsWarning(args)
                        \o <<LogEntry("error", "No top module selected")>>
            /\ tcl_code' = TclCode("log_cmd_error")
            /\ UNCHANGED <<pc, passes, pass_idx>>
       ELSE /\ log' = ArgumentsWarning(args)
                        \o <<LogEntry("log", "Perform clock propagation")>>
            /\ tcl_code' = "running"
            /\ passes' = PassesArray
            /\ pass_idx' = 1
            /\ pc' = "passes"
    /\ UNCHANGED <<top_module, selection, registry, logical_to_wire_map,
                   run_clean>>

\* the engine discards the PROPAGATED clocks of earlier runs before its first
\* pass (specification 4.2)
PropagationClear ==
    /\ pc = "passes"
    /\ ~cleared
    /\ registry' = RemoveAllOfKind(registry, "PROPAGATED")
    /\ cleared' = TRUE
    /\ events' = Append(events, "RemoveAllOfKind")
    /\ UNCHANGED <<top_module, selection, logical_to_wire_map, pc, passes,
                   pass_idx, delay_updates, last_cmd, tcl_code, tcl_result, log,
                   add_calls, prev_registry, prev_selection, select_calls,
                   run_clean, run_was_clean, stale, n_cmds>>

\* sdc.cc:452-454: one iteration of the loop over the passes
RunPass ==
    /\ pc = "passes"
    /\ cleared
    /\ pass_idx <= Len(passes)
    /\ LET e == PassRun(passes[pass_idx], registry)
       IN  /\ registry' = e.registry
           /\ log' = log \o e.log
    /\ events' = Append(events, passes[pass_idx])
    /\ pass_idx' = pass_idx + 1
    /\ UNCHANGED <<top_module, selection, logical_to_wire_map, pc, passes,
                   cleared, delay_updates, last_cmd, tcl_code, tcl_result,
                   add_calls, prev_registry, prev_selection, select_calls,
                   run_clean, run_was_clean, stale, n_cmds>>

\* sdc.cc:456 and the return of the wrapper, sdc.cc:475
UpdateAbc9DelayTarget ==
    /\ pc = "passes"
    /\ cleared
    /\ pass_idx > Len(passes)
    /\ delay_updates' = delay_updates + 1
    /\ events' = Append(events, "UpdateAbc9DelayTarget")
    /\ tcl_code' = TclCode("none")
    /\ pc' = "idle"
    /\ run_clean' = TRUE
    /\ UNCHANGED <<top_module, selection, registry, logical_to_wire_map, passes,
                   pass_idx, cleared, last_cmd, tcl_result, log, add_calls,
                   prev_registry, prev_selection, select_calls, run_was_clean,
                   stale, n_cmds>>

-----------------------------------------------------------------------------
(* The session *)

Init ==
    /\ top_module \in {"top", NoTop}
    /\ selection \in InitialSelections
    /\ registry = <<>>
    /\ logical_to_wire_map = [k \in {} |-> <<>>]
    /\ pc = "idle"
    /\ passes = <<>>
    /\ pass_idx = 1
    /\ cleared = FALSE
    /\ delay_updates = 0
    /\ events = <<>>
    /\ last_cmd = [name |-> "none", args |-> <<>>]
    /\ tcl_code = "TCL_OK"
    /\ tcl_result = <<>>
    /\ log = <<>>
    /\ add_calls = <<>>
    /\ prev_registry = <<>>
    /\ prev_selection = selection
    /\ select_calls = <<>>
    /\ run_clean = FALSE
    /\ run_was_clean = FALSE
    /\ stale = <<>>
    /\ n_cmds = 0

\* a session of up to MaxCmds commands, each run to completion
Next ==
    \/ n_cmds < MaxCmds /\ \E args \in SessionCreateArgLists : TclCreateClock(args)
    \/ n_cmds < MaxCmds /\ \E args \in GetClocksArgLists : TclGetClocks(args)
    \/ n_cmds < MaxCmds /\ \E args \in PropagateClocksArgLists : TclPropagateClocks(args)
    \/ PropagationClear
    \/ RunPass
    \/ UpdateAbc9DelayTarget

Spec == Init /\ [][Next]_vars

\* the parameter sweep of create_clock: one command on a fresh session
NextArgs ==
    n_cmds = 0 /\ \E args \in CreateClockArgLists : TclCreateClock(args)

SpecArgs == Init /\ [][NextArgs]_vars

-----------------------------------------------------------------------------
(* Properties *)

IsCreateClock == last_cmd.name = "create_clock"
IsGetClocks == last_cmd.name = "get_clocks"
IsPropagateClocks == last_cmd.name = "propagate_clocks"

HasWarning == \E i \in 1..Len(log) : log[i].level = "warning"

HasLogLine == \E i \in 1..Len(log) : log[i].level = "log"

\* the value that follows the option opt in args, or <<>>
OptionValues(args, opt) ==
    {args[i + 1] : i \in {k \in 2..(Len(args) - 1) : args[k] = opt}}

Given(args, opt) == opt \in Range(args)

C2_Rejected(args) ==
    \/ Len(args) < 4
    \/ ~Given(args, OptPeriod)
    \/ /\ OptionValues(args, OptPeriod) # {}
       /\ OptionValues(args, OptPeriod) \subseteq {<<"0">>, <<"-", "4">>}
    \/ args[Len(args)] = <<"z">>

\* C2: a create_clock that is rejected (fewer than 4 arguments, no -period or
\* a period <= 0, a target that resolves to no wire) ends in TCL_ERROR without
\* reaching Clock::Add, leaves the registry as it was, and leaves the session
\* ready for the next command (pc = "idle" is the guard of every command).
C2_RejectedCreateClock ==
    (IsCreateClock /\ C2_Rejected(last_cmd.args)) =>
        /\ tcl_code = "TCL_ERROR"
        /\ add_calls = <<>>
        /\ registry = prev_registry
        /\ pc = "idle"

C2_Witness ==
    /\ IsCreateClock
    /\ C2_Rejected(last_cmd.args)
    /\ tcl_code = "TCL_ERROR"
    /\ prev_registry # <<>>
    /\ registry = prev_registry
    /\ n_cmds < MaxCmds

RunFinished == IsPropagateClocks /\ pc = "idle" /\ tcl_code = "TCL_OK"

PassEvents ==
    LET IsStep(e) == e # "RemoveAllOfKind"
    IN  SelectSeq(events, IsStep)

FullRun == <<"BufferPropagation", "ClockDividerPropagation", "UpdateAbc9DelayTarget">>

\* C5: a propagate_clocks run on a design with a top module runs the buffer
\* pass, then the divider pass, then updates the delay target once: while the
\* passes run no update has happened, and a finished run did exactly these
\* three steps in this order.
C5_PassOrder ==
    /\ pc = "passes" =>
           /\ delay_updates = 0
           /\ PassEvents = SubSeq(FullRun, 1, Len(PassEvents))
           /\ Len(PassEvents) <= 2
    /\ RunFinished => PassEvents = FullRun /\ delay_updates = 1

C5_Witness ==
    /\ RunFinished
    /\ top_module # NoTop
    /\ PassEvents = FullRun
    /\ delay_updates = 1
    /\ OfKind(registry, "PROPAGATED") # <<>>

\* C6: propagate_clocks on a design without a top module ends in TCL_ERROR
\* with the error logged, builds and runs no pass, does not update the delay
\* target, and leaves the registry as it was.
C6_NoTopModule ==
    (IsPropagateClocks /\ top_module = NoTop) =>
        /\ tcl_code = "TCL_ERROR"
        /\ pc = "idle"
        /\ passes = <<>>
        /\ events = <<>>
        /\ delay_updates = 0
        /\ registry = prev_registry
        /\ \E i \in 1..Len(log) : log[i].level = "error"

C6_Witness ==
    /\ IsPropagateClocks
    /\ top_module = NoTop
    /\ tcl_code = "TCL_ERROR"
    /\ registry # <<>>
    /\ registry = prev_registry

\* the filters of a get_clocks command, read off its argument list
C7_Nets(args) ==
    UNION {Range(extract_list(v, <<>>, <<>>)) : v \in OptionValues(args, OptOf)}

C7_Patterns(args) ==
    {args[k] : k \in {j \in 2..Len(args) :
                         args[j][1] # "-" /\ args[j - 1] # OptOf}}

C7_Passes(c, args) ==
    /\ Given(args, OptOf) =>
           \E w \in c.source_nodes : id2cstr(WireName(w)) \in C7_Nets(args)
    /\ C7_Patterns(args) # {} => c.name \in C7_Patterns(args)

C7_Expected(reg, args) ==
    LET Pass(c) == C7_Passes(c, args)
        kept    == SelectSeq(reg, Pass)
    IN  [k \in 1..Len(kept) |-> kept[k].name]

\* C7: once clocks have been declared with create_clock, a get_clocks that
\* succeeds returns the names of the registered clocks that pass its -of and
\* name-pattern filters (all of them without a filter), each once, in
\* registry insertion order.
C7_GetClocksReturnsClocks ==
    (/\ IsGetClocks
     /\ tcl_code = "TCL_OK"
     /\ \A i \in 1..Len(registry) : registry[i].kind = "EXPLICIT") =>
        tcl_result = C7_Expected(registry, last_cmd.args)

\* C8: get_clocks without arguments on a design without clocks ends in
\* TCL_OK, with the empty list as its result and a warning in the log.
C8_EmptyGetClocks ==
    (IsGetClocks /\ last_cmd.args = <<CmdGetClocks>> /\ registry = <<>>) =>
        /\ tcl_code = "TCL_OK"
        /\ tcl_result = <<>>
        /\ HasWarning
        /\ \A i \in 1..Len(log) : log[i].level # "error"

C8_Witness ==
    /\ IsGetClocks
    /\ last_cmd.args = <<CmdGetClocks>>
    /\ registry = <<>>
    /\ tcl_code = "TCL_OK"
    /\ HasWarning

\* C9: of the commands only create_clock touches the selection (the host
\* resolves its target into the selection), the layer itself selects wires
\* only when create_clock finds no selected wire and selects the wires named
\* like the clock, and each time it does so the command writes a line to the
\* log.
C9_SelectionFrame ==
    /\ selection # prev_selection => IsCreateClock
    /\ select_calls # <<>> =>
           /\ IsCreateClock
           /\ \A i \in 1..Len(select_calls) :
                  WireName(select_calls[i]) \in OptionValues(last_cmd.args, OptName)
           /\ HasLogLine

\* the edge list of a create_clock command without its braces, and its values
C10_Strip(text) ==
    LET NoBrace(c) == c \notin {"{", "}"}
    IN  SelectSeq(text, NoBrace)

C10_First(text) == ParseNumber(C10_Strip(text))

C10_Second(text) == ParseNumber(C10_First(text).rest)

\* C10: every clock a create_clock hands to Clock::Add has
\* 0 <= rising_edge < period, and when the command had one -waveform option
\* whose edge list (with or without braces) holds two values, the clock's
\* rising and falling edges are these two values.
C10_WaveformEdges ==
    IsCreateClock =>
        \A i \in 1..Len(add_calls) :
            LET c == add_calls[i]
            IN  /\ 0 <= c.rising_edge
                /\ c.rising_edge < c.period
                /\ \A w \in OptionValues(last_cmd.args, OptWaveform) :
                       (/\ Cardinality(OptionValues(last_cmd.args, OptWaveform)) = 1
                        /\ C10_First(w).ok
                        /\ C10_Second(w).ok) =>
                           /\ c.rising_edge = C10_First(w).val
                           /\ c.falling_edge = C10_Second(w).val

=============================================================================
